---- MODULE Spec2Model ----
(***************************************************************************)
(* Model of print_directories.py: main() opens directory_structure.txt,   *)
(* print_directory_structure() writes four header lines and then walks    *)
(* the tree with os.walk, pruning excluded directory names in place and   *)
(* writing one line per visited directory and per listed file.            *)
(*                                                                         *)
(* A directory is the sequence of names leading to it from startpath      *)
(* (<<>> is startpath itself).  A line is a record whose `text` field is  *)
(* the string handed to write_line; `kind`, `at` and `name` record which  *)
(* filesystem entry the line was produced for.  The non-ASCII glyphs of   *)
(* the source are written with ASCII stand-ins of the same role.          *)
(***************************************************************************)
EXTENDS Integers, Sequences, FiniteSets, TLC

VARIABLES
    rootExists,   \* startpath names an existing directory
    tree,         \* the directories beneath startpath
    files,        \* the files: pairs <<directory, file name>>
    order,        \* the order in which os.scandir yields directory names
    excludeArg,   \* the exclude_dirs argument
    clock,        \* the wall clock, in seconds
    pc,           \* position of the running script
    fileState,    \* the handle f of main: "unopened", "open" or "closed"
    fileLines,    \* the lines of directory_structure.txt
    console,      \* the lines printed to the console by this run
    hdr,          \* index of the next header line
    stack,        \* os.walk's stack of directories still to visit
    cur,          \* the directory os.walk has yielded
    dirs,         \* the dirs list yielded with it (after line 29)
    todo,         \* lines the current loop iteration has still to write
    err,          \* an exception is propagating
    run,          \* 1 in the first run of the script, 2 in the second
    prevFile,     \* directory_structure.txt as the first run left it
    prevConsole   \* the console output of the first run

vars == <<rootExists, tree, files, order, excludeArg, clock, pc, fileState,
          fileLines, console, hdr, stack, cur, dirs, todo, err, run,
          prevFile, prevConsole>>

fsVars == <<rootExists, tree, order, excludeArg>>

(***************************************************************************)
(* Bounds of the model.                                                    *)
(***************************************************************************)
MaxEntries == 4      \* directories plus files beneath startpath
MaxClock == 1        \* seconds the clock can advance

DirNames == {"src", "target"}
FileNames == {"main.py", "Cargo.toml", "notes.txt"}

(***************************************************************************)
(* Program constants.                                                      *)
(***************************************************************************)
DefaultExclude == {".git", "__pycache__", "target", "node_modules", ".next", "dist"}
AllowedSuffixes == {".py", ".rs", ".ts", "Cargo.toml", ".md", ".json"}
IndentUnit == "|   "
DirMark == "[D] "
FileMark == "[F] "
OutputName == "directory_structure.txt"
HeaderCount == 4

(***************************************************************************)
(* Strings.                                                                *)
(***************************************************************************)
\* str.endswith(suffix)
EndsWith(s, suffix) ==
    /\ Len(suffix) <= Len(s)
    /\ SubSeq(s, Len(s) - Len(suffix) + 1, Len(s)) = suffix

\* The characters of the names in use, in code point order.
CodeOrder == ".0123456789ABCDEFGHIJKLMNOPQRSTUVWXYZ_abcdefghijklmnopqrstuvwxyz"

Ord(c) == CHOOSE i \in 1..Len(CodeOrder) : SubSeq(CodeOrder, i, i) = c

RECURSIVE StrLessFrom(_, _, _)
StrLessFrom(a, b, i) ==
    IF i > Len(b) THEN FALSE
    ELSE IF i > Len(a) THEN TRUE
    ELSE IF SubSeq(a, i, i) = SubSeq(b, i, i) THEN StrLessFrom(a, b, i + 1)
    ELSE Ord(SubSeq(a, i, i)) < Ord(SubSeq(b, i, i))

\* a < b on str: lexicographic by code point
StrLess(a, b) == StrLessFrom(a, b, 1)

RECURSIVE Sorted(_)
\* sorted(files)
Sorted(S) ==
    IF S = {} THEN <<>>
    ELSE LET m == CHOOSE x \in S : \A y \in S \ {x} : StrLess(x, y)
         IN  <<m>> \o Sorted(S \ {m})

RECURSIVE Repeat(_, _)
\* s * n
Repeat(s, n) == IF n <= 0 THEN "" ELSE s \o Repeat(s, n - 1)

(***************************************************************************)
(* The filesystem.                                                         *)
(***************************************************************************)
Root == <<>>

IsDir(p) == rootExists /\ (p = Root \/ p \in tree)

\* the directory names os.scandir(p) yields, in its order
ListDirs(p) == SelectSeq(order, LAMBDA d : Append(p, d) \in tree)

\* the file names os.scandir(p) yields
ListFiles(p) == {e[2] : e \in {x \in files : x[1] = p}}

\* os.path.relpath(root, startpath), as path components
RelPath(p) == IF p = Root THEN <<".">> ELSE p

\* Path(rel_path).parts
Parts(rel) == SelectSeq(rel, LAMBDA c : c # ".")

\* os.path.basename(root)
Basename(p) == p[Len(p)]

(***************************************************************************)
(* print_directory_structure.                                              *)
(***************************************************************************)
\* lines 15-16
ExcludeDirs == IF excludeArg.none THEN DefaultExclude ELSE excludeArg.set

FilterDirsKeepAll(ds) == ds

\* line 29
FilterDirs(ds) == SelectSeq(ds, LAMBDA d : d \notin ExcludeDirs)

AllowedAny(file) == TRUE

\* line 48
Allowed(file) == \E s \in AllowedSuffixes : EndsWith(file, s)

DirIndentLevel(level) == level

\* line 39
DirIndent(level) == level - 1

\* line 46
FileIndent(level) == level

Line(text, kind, at, name) == [text |-> text, kind |-> kind, at |-> at, name |-> name]

\* lines 22-25
HeaderLine(i, now) ==
    CASE i = 1 -> Line("Catan Project Directory Structure", "header", Root, "title")
      [] i = 2 -> Line("Generated at: " \o ToString(now), "header", Root, "generated")
      [] i = 3 -> Line("Root path: /abs/startpath", "header", Root, "rootpath")
      [] OTHER -> Line("\n", "header", Root, "blank")

\* line 36
RootLine == Line(DirMark \o "catan/", "dir", Root, "catan")

\* line 43
DirLine(p, level) ==
    Line(Repeat(IndentUnit, DirIndent(level)) \o DirMark \o Basename(p) \o "/",
         "dir", p, Basename(p))

\* line 49
FileLine(p, level, file) ==
    Line(Repeat(IndentUnit, FileIndent(level)) \o FileMark \o file, "file", p, file)

\* lines 47-49
FileLines(p, level, fs) ==
    LET keep == SelectSeq(Sorted(fs), Allowed)
    IN  [i \in 1..Len(keep) |-> FileLine(p, level, keep[i])]

BodyLinesFilesFirst(p, fs) ==
    LET level == Len(Parts(RelPath(p)))
    IN  IF RelPath(p) = <<".">> THEN <<RootLine>>
        ELSE FileLines(p, level, fs) \o <<DirLine(p, level)>>

BodyLinesRootFiles(p, fs) ==
    LET level == Len(Parts(RelPath(p)))
    IN  IF RelPath(p) = <<".">> THEN <<RootLine>> \o FileLines(p, level, fs)
        ELSE <<DirLine(p, level)>> \o FileLines(p, level, fs)

\* lines 31-49: what one iteration of the loop writes
BodyLines(p, fs) ==
    LET level == Len(Parts(RelPath(p)))
    IN  IF RelPath(p) = <<".">> THEN <<RootLine>>
        ELSE <<DirLine(p, level)>> \o FileLines(p, level, fs)

PushNone(stk, p, ds) == stk

\* os.walk resumed: the yielded dirs are pushed so that the first is next
Push(stk, p, ds) ==
    [i \in 1..Len(ds) |-> Append(p, ds[i])] \o stk

(***************************************************************************)
(* Initial states: every tree of at most MaxEntries entries.               *)
(***************************************************************************)
NoFs == [tree |-> {}, files |-> {}]

\* the trees one more directory or one more file makes of f
Grow(f) ==
    {[f EXCEPT !.tree = @ \cup {Append(p, d)}] : p \in f.tree \cup {Root}, d \in DirNames}
    \cup
    {[f EXCEPT !.files = @ \cup {<<p, n>>}] : p \in f.tree \cup {Root}, n \in FileNames}

RECURSIVE Filesystems(_)
Filesystems(n) ==
    IF n = 0 THEN {NoFs}
    ELSE LET F == Filesystems(n - 1) IN F \cup UNION {Grow(f) : f \in F}

Orders == {<<"src", "target">>, <<"target", "src">>}

ExcludeArgs == {[none |-> TRUE, set |-> {}]} \cup {[none |-> FALSE, set |-> s] : s \in SUBSET DirNames}

Init ==
    /\ rootExists \in BOOLEAN
    /\ \E f \in Filesystems(MaxEntries) :
          /\ rootExists \/ f = NoFs
          /\ tree = f.tree
          /\ files = f.files
    /\ order \in Orders
    /\ excludeArg \in ExcludeArgs
    /\ clock = 0
    /\ pc = "main"
    /\ fileState = "unopened"
    /\ fileLines = <<>>
    /\ console = <<>>
    /\ hdr = 1
    /\ stack = <<>>
    /\ cur = Root
    /\ dirs = <<>>
    /\ todo = <<>>
    /\ err = FALSE
    /\ run = 1
    /\ prevFile = <<>>
    /\ prevConsole = <<>>

(***************************************************************************)
(* main and the steps of print_directory_structure.                        *)
(***************************************************************************)
\* lines 18-20
WriteLine(line) ==
    /\ console' = Append(console, line)
    /\ fileLines' = Append(fileLines, line)

OpenAppend(old) == old

\* line 57: mode 'w' truncates
OpenTruncate(old) == <<>>

ExitLeavesOpenOnError(state, raised) == IF raised THEN state ELSE "closed"

\* line 57: leaving the with block closes f, exception or not
WithExit(state, raised) == "closed"

\* line 57: open(output_path, 'w'); the file is created in the script's
\* directory, which is the startpath main passes on line 58
Open ==
    /\ pc = "main"
    /\ fileState' = "open"
    /\ fileLines' = OpenTruncate(fileLines)
    /\ files' = IF rootExists THEN files \cup {<<Root, OutputName>>} ELSE files
    /\ pc' = "header"
    /\ hdr' = 1
    /\ UNCHANGED <<fsVars, clock, console, stack, cur, dirs, todo, err, run,
                   prevFile, prevConsole>>

\* line 57: open raises
OpenFails ==
    /\ pc = "main"
    /\ err' = TRUE
    /\ pc' = "failed"
    /\ UNCHANGED <<fsVars, files, clock, fileState, fileLines, console, hdr, stack,
                   cur, dirs, todo, run, prevFile, prevConsole>>

\* lines 22-25, and line 27 reaching os.walk(startpath)
WriteHeader ==
    /\ pc = "header"
    /\ \E now \in clock..MaxClock :
          /\ clock' = IF hdr = 2 THEN now ELSE clock
          /\ WriteLine(HeaderLine(hdr, clock'))
    /\ hdr' = hdr + 1
    /\ IF hdr = HeaderCount
          THEN pc' = "walk" /\ stack' = <<Root>>
          ELSE pc' = "header" /\ stack' = stack
    /\ UNCHANGED <<fsVars, files, fileState, cur, dirs, todo, err, run,
                   prevFile, prevConsole>>

\* line 27: os.walk takes the next directory; one it cannot scan is dropped
\* without a word (onerror is None); otherwise lines 29-33 run
WalkNext ==
    /\ pc = "walk"
    /\ stack # <<>>
    /\ LET top == Head(stack) IN
          IF ~IsDir(top)
          THEN /\ stack' = Tail(stack)
               /\ UNCHANGED <<pc, cur, dirs, todo>>
          ELSE /\ stack' = Tail(stack)
               /\ cur' = top
               /\ dirs' = FilterDirs(ListDirs(top))
               /\ todo' = BodyLines(top, ListFiles(top))
               /\ pc' = "body"
    /\ UNCHANGED <<fsVars, files, clock, fileState, fileLines, console, hdr, err,
                   run, prevFile, prevConsole>>

\* lines 36, 43, 49: the next write_line of the iteration
WriteBody ==
    /\ pc = "body"
    /\ todo # <<>>
    /\ WriteLine(Head(todo))
    /\ todo' = Tail(todo)
    /\ UNCHANGED <<fsVars, files, clock, pc, fileState, hdr, stack, cur, dirs, err,
                   run, prevFile, prevConsole>>

\* lines 37, 49 -> 27: the iteration ends and os.walk descends into dirs
Resume ==
    /\ pc = "body"
    /\ todo = <<>>
    /\ stack' = Push(stack, cur, dirs)
    /\ pc' = "walk"
    /\ UNCHANGED <<fsVars, files, clock, fileState, fileLines, console, hdr, cur,
                   dirs, todo, err, run, prevFile, prevConsole>>

\* line 27: os.walk is exhausted and print_directory_structure returns
WalkDone ==
    /\ pc = "walk"
    /\ stack = <<>>
    /\ pc' = "exit_with"
    /\ UNCHANGED <<fsVars, files, clock, fileState, fileLines, console, hdr, stack,
                   cur, dirs, todo, err, run, prevFile, prevConsole>>

\* lines 19-20: print or output_file.write raises
WriteFails ==
    /\ \/ pc = "header"
       \/ pc = "body" /\ todo # <<>>
    /\ \E printed \in BOOLEAN :
          console' = IF ~printed THEN console
                     ELSE IF pc = "header" THEN Append(console, HeaderLine(hdr, clock))
                     ELSE Append(console, Head(todo))
    /\ err' = TRUE
    /\ pc' = "exit_with"
    /\ UNCHANGED <<fsVars, files, clock, fileState, fileLines, hdr, stack, cur, dirs,
                   todo, run, prevFile, prevConsole>>

\* line 57: the with block is left
Close ==
    /\ pc = "exit_with"
    /\ fileState' = WithExit(fileState, err)
    /\ pc' = IF err THEN "failed" ELSE "saved"
    /\ UNCHANGED <<fsVars, files, clock, fileLines, console, hdr, stack, cur, dirs,
                   todo, err, run, prevFile, prevConsole>>

\* line 60
PrintSaved ==
    /\ pc = "saved"
    /\ console' = Append(console, Line("\nDirectory structure has been saved to: "
                                        \o OutputName, "saved", Root, OutputName))
    /\ pc' = "done"
    /\ UNCHANGED <<fsVars, files, clock, fileState, fileLines, hdr, stack, cur, dirs,
                   todo, err, run, prevFile, prevConsole>>

\* lines 62-63: the script is started a second time on the tree as it is
Rerun ==
    /\ pc = "done"
    /\ run = 1
    /\ run' = 2
    /\ prevFile' = fileLines
    /\ prevConsole' = console
    /\ console' = <<>>
    /\ fileState' = "unopened"
    /\ pc' = "main"
    /\ hdr' = 1
    /\ cur' = Root
    /\ dirs' = <<>>
    /\ UNCHANGED <<fsVars, files, clock, fileLines, stack, todo, err>>

Next ==
    \/ Open
    \/ OpenFails
    \/ WriteHeader
    \/ WalkNext
    \/ WriteBody
    \/ Resume
    \/ WalkDone
    \/ WriteFails
    \/ Close
    \/ PrintSaved
    \/ Rerun

Spec == Init /\ [][Next]_vars

(***************************************************************************)
(* Vocabulary of the properties.                                           *)
(***************************************************************************)
\* some component of p is an excluded name
Excluded(p) == \E i \in 1..Len(p) : p[i] \in ExcludeDirs

\* the directories reachable from startpath through no excluded name
Reachable == {p \in {Root} \cup tree : rootExists /\ ~Excluded(p)}

IsPrefix(p, q) == Len(p) <= Len(q) /\ SubSeq(q, 1, Len(p)) = p

IsProperPrefix(p, q) == Len(p) < Len(q) /\ SubSeq(q, 1, Len(p)) = p

\* positions of the lines of kind k written for entry <<at, name>>
LinesFor(out, k, at, name) ==
    {i \in 1..Len(out) : out[i].kind = k /\ out[i].at = at /\ out[i].name = name}

LinesOfKind(out, k) == {i \in 1..Len(out) : out[i].kind = k}

Texts(out) == [i \in 1..Len(out) |-> out[i].text]

\* the run went through to the end of main
Completed == pc = "done"

\* C1: no directory or file line, on the console or in the file, names an
\* entry that is or lies beneath a non-root directory with an excluded name,
\* and no such directory is ever waiting on os.walk's stack or being visited.
C1_ExcludedNeverVisited ==
    /\ \A i \in 1..Len(fileLines) :
          fileLines[i].kind \in {"dir", "file"} => ~Excluded(fileLines[i].at)
    /\ \A i \in 1..Len(console) :
          console[i].kind \in {"dir", "file"} => ~Excluded(console[i].at)
    /\ \A i \in 1..Len(stack) : ~Excluded(stack[i])
    /\ pc = "body" => ~Excluded(cur)

\* C1 witness: a completed run over a tree that holds an excluded directory
\* with a listable file in it, next to a directory that was listed.
C1_Witness ==
    /\ Completed
    /\ \E e \in files : Excluded(e[1]) /\ EndsWith(e[2], ".py")
    /\ \E i \in 1..Len(fileLines) : fileLines[i].kind = "dir" /\ fileLines[i].at # Root

\* C2 (as claimed): after a completed run every visited directory, the root
\* included, has exactly one file line for each of its files with an allowed
\* suffix.
C2_EveryVisitedDirListsItsFiles ==
    Completed =>
        \A p \in Reachable : \A f \in ListFiles(p) :
            (\E s \in AllowedSuffixes : EndsWith(f, s))
                => Cardinality(LinesFor(fileLines, "file", p, f)) = 1

\* C3 (as claimed): with a startpath that does not exist nothing is ever
\* written to the console or the file and the run does not complete.
C3_MissingRootNoOutput ==
    ~rootExists => /\ console = <<>>
                   /\ fileLines = <<>>
                   /\ pc \notin {"saved", "done"}

\* C4: every file line names a file ending in '.py', '.rs', '.ts',
\* 'Cargo.toml', '.md' or '.json', and its text ends with that name.
C4_OnlyAllowedSuffixes ==
    \A out \in {fileLines, console} : \A i \in 1..Len(out) :
        out[i].kind = "file" =>
            /\ \E s \in {".py", ".rs", ".ts", "Cargo.toml", ".md", ".json"} :
                  EndsWith(out[i].name, s)
            /\ EndsWith(out[i].text, out[i].name)

\* C4 witness: a completed run that listed a file of a directory which also
\* holds a file without an allowed suffix.
C4_Witness ==
    /\ Completed
    /\ \E i \in 1..Len(fileLines) :
          /\ fileLines[i].kind = "file"
          /\ <<fileLines[i].at, "notes.txt">> \in files

ListedFiles ==
    {e \in files : /\ e[1] \in Reachable \ {Root}
                   /\ \E s \in AllowedSuffixes : EndsWith(e[2], s)}

Depth(p) == Len(p)

C8_SecondRunIdentical ==
    (run = 2 /\ Completed) =>
        /\ Texts(fileLines) = Texts(prevFile)
        /\ Texts(console) = Texts(prevConsole)

\* the output without its second line, the "Generated at:" time stamp
Unstamped(out) == [i \in 1..Len(out) |-> IF i = 2 THEN "" ELSE out[i].text]

\* C8 (amended): a second run on the tree as the first left it writes the
\* same text except for the "Generated at:" line, which differs whenever the
\* clock has moved on to another second between the runs.
C8_SecondRunIdenticalButStamp ==
    (run = 2 /\ Completed) =>
        /\ Unstamped(fileLines) = Unstamped(prevFile)
        /\ Unstamped(console) = Unstamped(prevConsole)
        /\ (fileLines[2].text = prevFile[2].text)
              <=> (Texts(fileLines) = Texts(prevFile))

\* C8 witness: two completed runs over a tree with listed entries, the
\* clock having advanced between them.
C8_Witness ==
    /\ run = 2
    /\ Completed
    /\ Len(fileLines) >= 7
    /\ fileLines[2].text # prevFile[2].text

\* C9: the file changes only in steps that leave the handle open (so not
\* before the open and not after the close), and every step that ends a
\* run, by completion or by an exception, leaves the handle not open.
C9_FileScoped ==
    [][ /\ fileLines' # fileLines => fileState' = "open"
        /\ pc' \in {"done", "failed"} => fileState' # "open" ]_vars

\* C9 witness: a run that was cut short by an exception after the header
\* and some of the tree were written, with the handle closed.
C9_Witness ==
    /\ pc = "failed"
    /\ fileState = "closed"
    /\ Len(fileLines) >= 6

\* C10: in the file and on the console the line of a directory precedes the
\* lines of its files and of everything beneath it, and the lines of a
\* directory's files precede the lines of its subdirectories.
C10_PreOrder ==
    \A out \in {fileLines, console} : \A i, j \in 1..Len(out) :
        /\ (/\ out[i].kind = "dir"
            /\ \/ out[j].kind = "file" /\ IsPrefix(out[i].at, out[j].at)
               \/ out[j].kind = "dir" /\ IsProperPrefix(out[i].at, out[j].at))
              => i < j
        /\ (/\ out[i].kind = "file"
            /\ out[j].kind = "dir"
            /\ IsProperPrefix(out[i].at, out[j].at))
              => i < j

\* C10 witness: a completed run that listed a directory with a file, a
\* subdirectory of it and a file of that subdirectory.
C10_Witness ==
    /\ Completed
    /\ \E i, j, k \in 1..Len(fileLines) :
          /\ fileLines[i].kind = "file" /\ Len(fileLines[i].at) = 1
          /\ fileLines[j].kind = "dir" /\ IsProperPrefix(fileLines[i].at, fileLines[j].at)
          /\ fileLines[k].kind = "file" /\ fileLines[k].at = fileLines[j].at

====
